---- MODULE Spec2Model ----
(***************************************************************************)
(* IMNCI clinical decision support: the six domain classifiers and the     *)
(* aggregator of lib/imnci-classification, as pure operators, the state    *)
(* machines that apply them, and the IMNCIAssessment wizard that calls     *)
(* them step by step and saves its progress.  The dispensing of stock on   *)
(* the Dispensary page and the status changes on the Referrals page are    *)
(* modelled with the clients that race on them.                            *)
(*                                                                         *)
(* Conventions.                                                            *)
(*  - An optional value (a `?:` field, a value that may be undefined) is a *)
(*    sequence of length at most one: <<>> is undefined, <<v>> is v.       *)
(*  - An optional string field of a result (urgency) is the string itself  *)
(*    or Undefined.                                                        *)
(*  - muacMeasurement and weightForAge are decimal numbers in the source;  *)
(*    here they are integers counting tenths (11.5 cm is 115, -3 is -30).  *)
(*  - The treatment text of a result is carried, never read by any rule,   *)
(*    and is left out of the result records.                               *)
(***************************************************************************)
EXTENDS Integers, Sequences, FiniteSets, Bags, TLC

VARIABLES
    classifications,  \* the list handed to calculateOverallAssessment; in
                      \* the wizard, its `classifications` array by step
    overall,          \* what calculateOverallAssessment returned, if called
    fn,               \* the domain classifier under call, or "wizard"
    data,             \* the observation record handed to that classifier
    result,           \* the ClassificationResult it returned, if called
    currentStep,      \* wizard: index into STEPS, from 0
    formData,         \* wizard: the form state of all steps
    patient,          \* wizard: the patient query's data (the age), if loaded
    assessmentId,     \* wizard: id of the saved row, if any
    pendingSaves,     \* saveAssessment calls whose response is outstanding
    completion,       \* state of the completeAssessment mutation
    imnci_assessments,\* the table: row id -> row
    nextPressed,      \* history: the steps on which Next has been pressed
    inventory,        \* the quantity column of the inventory item's row
    dispensing_records,\* quantity_dispensed of the rows of that table
    dispensary,       \* per client: the Dispensary page and its mutation
    referrals,        \* the status column of the referral's row
    referralsPage     \* per client: the Referrals page and its mutation

vars ==
    <<classifications, overall, fn, data, result, currentStep, formData,
      patient, assessmentId, pendingSaves, completion, imnci_assessments,
      nextPressed, inventory, dispensing_records, dispensary, referrals,
      referralsPage>>

\* the state of the classifiers and the aggregator
libVars == <<classifications, overall, fn, data, result>>

\* what the Dispensary and Referrals pages add to the state
dispensaryVars == <<inventory, dispensing_records, dispensary>>

referralVars == <<referrals, referralsPage>>

\* what the wizard adds to the state
wizardVars ==
    <<currentStep, formData, patient, assessmentId, pendingSaves, completion,
      imnci_assessments, nextPressed>>

----------------------------------------------------------------------------
(* Optional values *)

Absent == <<>>

Some(v) == <<v>>

Undefined == "undefined"

OrZero_absentCountsAsLarge(x) == IF x = Absent THEN 100 ELSE x[1]

\* JS `x || 0` on an optional number: undefined and 0 both give 0.
OrZero(x) == IF x = Absent THEN 0 ELSE x[1]

\* JS truthiness of an optional number: undefined and 0 are falsy.
Truthy(x) == x # Absent /\ x[1] # 0

----------------------------------------------------------------------------
(* Bounds of the model *)

\* longest list handed to the aggregator
MaxResults == 2

\* most saveAssessment calls outstanding at once
MaxInFlight == 2

\* the quantity of the inventory item when it was stocked
StockedQuantity == 2

\* most dispensing records created for the item
MaxRecords == 2

\* labels of the results handed to the aggregator
Labels == {"A", "B"}

\* ages in months handed to assessCoughBreathing: 0..MaxAge
MaxAge == 13

\* breathing rates per minute: -1..1 and 38..MaxRate
MaxRate == 61

\* durations in days: -1..MaxDays
MaxDays == 15

\* MUAC in tenths of a centimetre: 0 and 113..MaxMuac
MaxMuac == 126

\* weight-for-age z-scores in tenths: -MaxZDepth..1
MaxZDepth == 32

----------------------------------------------------------------------------
(* Types of lib/imnci-classification *)

ClassificationColor == {"green", "yellow", "pink", "red"}

Urgency == {"routine", "urgent", "emergency"}

ClassificationResult ==
    [classification : Labels,
     color : ClassificationColor,
     requiresReferral : BOOLEAN,
     urgency : Urgency \cup {Undefined}]

\* a result as a classifier builds it
Result(label, color, referral, urgency) ==
    [classification |-> label, color |-> color,
     requiresReferral |-> referral, urgency |-> urgency]

----------------------------------------------------------------------------
(* assessDangerSigns *)

assessDangerSigns_missesConvulsingNow(d) ==
    LET hasDangerSign ==
            \/ d.notAbleToDrink
            \/ d.vomitsEverything
            \/ d.hasConvulsions
            \/ d.lethargicUnconscious
    IN  IF hasDangerSign
        THEN Result("General Danger Signs Present", "red", TRUE, "emergency")
        ELSE Result("No General Danger Signs", "green", FALSE, Undefined)

assessDangerSigns(d) ==
    LET hasDangerSign ==
            \/ d.notAbleToDrink
            \/ d.vomitsEverything
            \/ d.hasConvulsions
            \/ d.lethargicUnconscious
            \/ d.convulsingNow
    IN  IF hasDangerSign
        THEN Result("General Danger Signs Present", "red", TRUE, "emergency")
        ELSE Result("No General Danger Signs", "green", FALSE, Undefined)

----------------------------------------------------------------------------
(* assessCoughBreathing *)

fastBreathingThreshold_infantBandShifted(ageInMonths) ==
    IF ageInMonths <= 2 THEN 60 ELSE IF ageInMonths <= 12 THEN 50 ELSE 40

\* const fastBreathingThreshold = age < 2 ? 60 : age < 12 ? 50 : 40
fastBreathingThreshold(ageInMonths) ==
    IF ageInMonths < 2 THEN 60 ELSE IF ageInMonths < 12 THEN 50 ELSE 40

assessCoughBreathing_noPresenceCheck(d) ==
    LET hasFastBreathing ==
            OrZero(d.breathsPerMinute) >= fastBreathingThreshold(d.ageInMonths)
    IN  IF d.hasDangerSigns \/ d.stridor \/ d.chestIndrawing
        THEN Result("Severe Pneumonia or Very Severe Disease", "red", TRUE, "emergency")
        ELSE IF ~d.hasCoughDifficultyBreathing
        THEN Result("No Cough or Breathing Problem", "green", FALSE, Undefined)
        ELSE IF hasFastBreathing
        THEN Result("Pneumonia", "yellow", FALSE, Undefined)
        ELSE Result("No Pneumonia: Cough or Cold", "green", FALSE, Undefined)

assessCoughBreathing_refersChronicCough(d) ==
    LET hasFastBreathing ==
            OrZero(d.breathsPerMinute) >= fastBreathingThreshold(d.ageInMonths)
    IN  IF ~d.hasCoughDifficultyBreathing
        THEN Result("No Cough or Breathing Problem", "green", FALSE, Undefined)
        ELSE IF d.hasDangerSigns \/ d.stridor \/ d.chestIndrawing
        THEN Result("Severe Pneumonia or Very Severe Disease", "red", TRUE, "emergency")
        ELSE IF hasFastBreathing
        THEN Result("Pneumonia", "yellow", FALSE, Undefined)
        ELSE IF OrZero(d.coughDurationDays) > 14
        THEN Result("No Pneumonia: Cough or Cold", "green", TRUE, "routine")
        ELSE Result("No Pneumonia: Cough or Cold", "green", FALSE, Undefined)

assessCoughBreathing(d) ==
    LET hasFastBreathing ==
            OrZero(d.breathsPerMinute) >= fastBreathingThreshold(d.ageInMonths)
    IN  IF ~d.hasCoughDifficultyBreathing
        THEN Result("No Cough or Breathing Problem", "green", FALSE, Undefined)
        ELSE IF d.hasDangerSigns \/ d.stridor \/ d.chestIndrawing
        THEN Result("Severe Pneumonia or Very Severe Disease", "red", TRUE, "emergency")
        ELSE IF hasFastBreathing
        THEN Result("Pneumonia", "yellow", FALSE, Undefined)
        ELSE Result("No Pneumonia: Cough or Cold", "green", FALSE, Undefined)

----------------------------------------------------------------------------
(* assessDiarrhea *)

assessDiarrhea_dysenteryFirst(d) ==
    IF ~d.hasDiarrhea
    THEN Result("No Diarrhea", "green", FALSE, Undefined)
    ELSE IF d.bloodInStool
    THEN Result("Dysentery", "yellow", FALSE, Undefined)
    ELSE IF \/ (d.lethargicUnconscious \/ d.notAbleToDrink)
            \/ (d.sunkenEyes /\ d.skinPinchVerySlow)
    THEN Result("Severe Dehydration", "red", TRUE, "emergency")
    ELSE IF \/ d.restlessIrritable
            \/ d.sunkenEyes
            \/ d.drinksEagerly
            \/ d.skinPinchSlow
    THEN Result("Some Dehydration", "yellow", FALSE, Undefined)
    ELSE IF OrZero(d.diarrheaDurationDays) >= 14
    THEN Result("Persistent Diarrhea", "yellow", TRUE, "routine")
    ELSE Result("No Dehydration", "green", FALSE, Undefined)

assessDiarrhea_strictDuration(d) ==
    IF ~d.hasDiarrhea
    THEN Result("No Diarrhea", "green", FALSE, Undefined)
    ELSE IF \/ (d.lethargicUnconscious \/ d.notAbleToDrink)
            \/ (d.sunkenEyes /\ d.skinPinchVerySlow)
    THEN Result("Severe Dehydration", "red", TRUE, "emergency")
    ELSE IF \/ d.restlessIrritable
            \/ d.sunkenEyes
            \/ d.drinksEagerly
            \/ d.skinPinchSlow
    THEN Result("Some Dehydration", "yellow", FALSE, Undefined)
    ELSE IF d.bloodInStool
    THEN Result("Dysentery", "yellow", FALSE, Undefined)
    ELSE IF OrZero(d.diarrheaDurationDays) > 14
    THEN Result("Persistent Diarrhea", "yellow", TRUE, "routine")
    ELSE Result("No Dehydration", "green", FALSE, Undefined)

assessDiarrhea(d) ==
    IF ~d.hasDiarrhea
    THEN Result("No Diarrhea", "green", FALSE, Undefined)
    ELSE IF \/ (d.lethargicUnconscious \/ d.notAbleToDrink)
            \/ (d.sunkenEyes /\ d.skinPinchVerySlow)
    THEN Result("Severe Dehydration", "red", TRUE, "emergency")
    ELSE IF \/ d.restlessIrritable
            \/ d.sunkenEyes
            \/ d.drinksEagerly
            \/ d.skinPinchSlow
    THEN Result("Some Dehydration", "yellow", FALSE, Undefined)
    ELSE IF d.bloodInStool
    THEN Result("Dysentery", "yellow", FALSE, Undefined)
    ELSE IF OrZero(d.diarrheaDurationDays) >= 14
    THEN Result("Persistent Diarrhea", "yellow", TRUE, "routine")
    ELSE Result("No Dehydration", "green", FALSE, Undefined)

----------------------------------------------------------------------------
(* assessFever *)

assessFever_malariaBeforeMeasles(d) ==
    IF ~d.hasFever
    THEN Result("No Fever", "green", FALSE, Undefined)
    ELSE IF d.hasDangerSigns \/ d.stiffNeck
    THEN Result("Very Severe Febrile Disease", "red", TRUE, "emergency")
    ELSE IF d.malariaRdtResult = "positive"
    THEN Result("Malaria", "yellow", FALSE, Undefined)
    ELSE IF d.generalizedRash /\ d.runnyNose
    THEN IF d.cloudingCornea \/ d.mouthUlcers \/ d.pusDrainingEye
         THEN Result("Severe Complicated Measles", "red", TRUE, "emergency")
         ELSE Result("Measles with Eye or Mouth Complications", "yellow", FALSE, Undefined)
    ELSE Result(IF d.malariaRdtResult = "negative"
                THEN "Fever - No Malaria" ELSE "Fever - Cause Unknown",
                "green", OrZero(d.feverDurationDays) >= 7, "routine")

assessFever_shortFeverUrgent(d) ==
    IF ~d.hasFever
    THEN Result("No Fever", "green", FALSE, Undefined)
    ELSE IF d.hasDangerSigns \/ d.stiffNeck
    THEN Result("Very Severe Febrile Disease", "red", TRUE, "emergency")
    ELSE IF d.generalizedRash /\ d.runnyNose
    THEN IF d.cloudingCornea \/ d.mouthUlcers \/ d.pusDrainingEye
         THEN Result("Severe Complicated Measles", "red", TRUE, "emergency")
         ELSE Result("Measles with Eye or Mouth Complications", "yellow", FALSE, Undefined)
    ELSE IF d.malariaRdtResult = "positive"
    THEN Result("Malaria", "yellow", FALSE, Undefined)
    ELSE Result(IF d.malariaRdtResult = "negative"
                THEN "Fever - No Malaria" ELSE "Fever - Cause Unknown",
                "green", OrZero(d.feverDurationDays) >= 7,
                IF OrZero(d.feverDurationDays) >= 7 THEN "routine"
                ELSE "urgent")

assessFever(d) ==
    IF ~d.hasFever
    THEN Result("No Fever", "green", FALSE, Undefined)
    ELSE IF d.hasDangerSigns \/ d.stiffNeck
    THEN Result("Very Severe Febrile Disease", "red", TRUE, "emergency")
    ELSE IF d.generalizedRash /\ d.runnyNose
    THEN IF d.cloudingCornea \/ d.mouthUlcers \/ d.pusDrainingEye
         THEN Result("Severe Complicated Measles", "red", TRUE, "emergency")
         ELSE Result("Measles with Eye or Mouth Complications", "yellow", FALSE, Undefined)
    ELSE IF d.malariaRdtResult = "positive"
    THEN Result("Malaria", "yellow", FALSE, Undefined)
    ELSE Result(IF d.malariaRdtResult = "negative"
                THEN "Fever - No Malaria" ELSE "Fever - Cause Unknown",
                "green", OrZero(d.feverDurationDays) >= 7, "routine")

----------------------------------------------------------------------------
(* assessEarProblem *)

assessEarProblem_acuteBeforeChronic(d) ==
    IF ~d.hasEarProblem
    THEN Result("No Ear Problem", "green", FALSE, Undefined)
    ELSE IF d.tenderSwellingBehindEar
    THEN Result("Mastoiditis", "red", TRUE, "urgent")
    ELSE IF d.earDischarge \/ d.earPain
    THEN Result("Acute Ear Infection", "yellow", FALSE, Undefined)
    ELSE IF OrZero(d.earDischargeDurationDays) >= 14
    THEN Result("Chronic Ear Infection", "yellow", TRUE, "routine")
    ELSE Result("No Ear Infection", "green", FALSE, Undefined)

assessEarProblem_chronicIsPink(d) ==
    IF ~d.hasEarProblem
    THEN Result("No Ear Problem", "green", FALSE, Undefined)
    ELSE IF d.tenderSwellingBehindEar
    THEN Result("Mastoiditis", "red", TRUE, "urgent")
    ELSE IF OrZero(d.earDischargeDurationDays) >= 14
    THEN Result("Chronic Ear Infection", "pink", TRUE, "routine")
    ELSE IF d.earDischarge \/ d.earPain
    THEN Result("Acute Ear Infection", "yellow", FALSE, Undefined)
    ELSE Result("No Ear Infection", "green", FALSE, Undefined)

assessEarProblem(d) ==
    IF ~d.hasEarProblem
    THEN Result("No Ear Problem", "green", FALSE, Undefined)
    ELSE IF d.tenderSwellingBehindEar
    THEN Result("Mastoiditis", "red", TRUE, "urgent")
    ELSE IF OrZero(d.earDischargeDurationDays) >= 14
    THEN Result("Chronic Ear Infection", "yellow", TRUE, "routine")
    ELSE IF d.earDischarge \/ d.earPain
    THEN Result("Acute Ear Infection", "yellow", FALSE, Undefined)
    ELSE Result("No Ear Infection", "green", FALSE, Undefined)

----------------------------------------------------------------------------
(* assessNutrition; MUAC and z-score in tenths *)

assessNutrition_severeAnemiaRoutine(d) ==
    IF \/ d.visibleSevereWasting
       \/ d.edemaBothFeet
       \/ (Truthy(d.muacMeasurement) /\ d.muacMeasurement[1] < 115)
       \/ (Truthy(d.weightForAge) /\ d.weightForAge[1] < -30)
    THEN Result("Severe Acute Malnutrition", "red", TRUE, "urgent")
    ELSE IF d.severePalmarPallor
    THEN Result("Severe Anemia", "red", TRUE, "routine")
    ELSE IF \/ (/\ Truthy(d.muacMeasurement)
                /\ d.muacMeasurement[1] >= 115
                /\ d.muacMeasurement[1] < 125)
            \/ (/\ Truthy(d.weightForAge)
                /\ d.weightForAge[1] >= -30
                /\ d.weightForAge[1] < -20)
    THEN Result("Moderate Acute Malnutrition", "yellow", FALSE, Undefined)
    ELSE IF d.palmarPallor
    THEN Result("Anemia", "yellow", FALSE, Undefined)
    ELSE Result("No Malnutrition or Anemia", "green", FALSE, Undefined)

assessNutrition(d) ==
    IF \/ d.visibleSevereWasting
       \/ d.edemaBothFeet
       \/ (Truthy(d.muacMeasurement) /\ d.muacMeasurement[1] < 115)
       \/ (Truthy(d.weightForAge) /\ d.weightForAge[1] < -30)
    THEN Result("Severe Acute Malnutrition", "red", TRUE, "urgent")
    ELSE IF d.severePalmarPallor
    THEN Result("Severe Anemia", "red", TRUE, "urgent")
    ELSE IF \/ (/\ Truthy(d.muacMeasurement)
                /\ d.muacMeasurement[1] >= 115
                /\ d.muacMeasurement[1] < 125)
            \/ (/\ Truthy(d.weightForAge)
                /\ d.weightForAge[1] >= -30
                /\ d.weightForAge[1] < -20)
    THEN Result("Moderate Acute Malnutrition", "yellow", FALSE, Undefined)
    ELSE IF d.palmarPallor
    THEN Result("Anemia", "yellow", FALSE, Undefined)
    ELSE Result("No Malnutrition or Anemia", "green", FALSE, Undefined)

----------------------------------------------------------------------------
(* calculateOverallAssessment *)

priorityOrder_pinkBelowYellow == <<"green", "pink", "yellow", "red">>

priorityOrder == <<"green", "yellow", "pink", "red">>

\* Array.prototype.indexOf: the first index (from 0) holding x, or -1.
indexOf(arr, x) ==
    IF \E i \in 1..Len(arr) : arr[i] = x
    THEN (CHOOSE i \in 1..Len(arr) :
              arr[i] = x /\ \A j \in 1..(i - 1) : arr[j] # x) - 1
    ELSE -1

\* the locals of calculateOverallAssessment before the scan
initialLocals ==
    [criticalFindings |-> <<>>,
     highestPriority |-> "green",
     referralUrgency |-> "none",
     requiresReferral |-> FALSE]

forEachCallback_lastReferralWins(acc, c) ==
    [criticalFindings |->
        IF c.requiresReferral
        THEN Append(acc.criticalFindings, c.classification)
        ELSE acc.criticalFindings,
     highestPriority |->
        IF indexOf(priorityOrder, c.color) > indexOf(priorityOrder, acc.highestPriority)
        THEN c.color
        ELSE acc.highestPriority,
     referralUrgency |->
        IF c.urgency = "emergency" THEN "emergency"
        ELSE IF c.urgency = "urgent" /\ acc.referralUrgency # "emergency" THEN "urgent"
        ELSE IF c.urgency = "routine" /\ acc.referralUrgency = "none" THEN "routine"
        ELSE acc.referralUrgency,
     requiresReferral |-> c.requiresReferral]

forEachCallback_findingsNewestFirst(acc, c) ==
    [criticalFindings |->
        IF c.requiresReferral
        THEN <<c.classification>> \o acc.criticalFindings
        ELSE acc.criticalFindings,
     highestPriority |->
        IF indexOf(priorityOrder, c.color) > indexOf(priorityOrder, acc.highestPriority)
        THEN c.color
        ELSE acc.highestPriority,
     referralUrgency |->
        IF c.urgency = "emergency" THEN "emergency"
        ELSE IF c.urgency = "urgent" /\ acc.referralUrgency # "emergency" THEN "urgent"
        ELSE IF c.urgency = "routine" /\ acc.referralUrgency = "none" THEN "routine"
        ELSE acc.referralUrgency,
     requiresReferral |-> acc.requiresReferral \/ c.requiresReferral]

forEachCallback_urgencyOfReferringOnly(acc, c) ==
    [criticalFindings |->
        IF c.requiresReferral
        THEN Append(acc.criticalFindings, c.classification)
        ELSE acc.criticalFindings,
     highestPriority |->
        IF indexOf(priorityOrder, c.color) > indexOf(priorityOrder, acc.highestPriority)
        THEN c.color
        ELSE acc.highestPriority,
     referralUrgency |->
        IF ~c.requiresReferral THEN acc.referralUrgency
        ELSE IF c.urgency = "emergency" THEN "emergency"
        ELSE IF c.urgency = "urgent" /\ acc.referralUrgency # "emergency" THEN "urgent"
        ELSE IF c.urgency = "routine" /\ acc.referralUrgency = "none" THEN "routine"
        ELSE acc.referralUrgency,
     requiresReferral |-> acc.requiresReferral \/ c.requiresReferral]

forEachCallback_urgentOverridesEmergency(acc, c) ==
    [criticalFindings |->
        IF c.requiresReferral
        THEN Append(acc.criticalFindings, c.classification)
        ELSE acc.criticalFindings,
     highestPriority |->
        IF indexOf(priorityOrder, c.color) > indexOf(priorityOrder, acc.highestPriority)
        THEN c.color
        ELSE acc.highestPriority,
     referralUrgency |->
        IF c.urgency = "emergency" THEN "emergency"
        ELSE IF c.urgency = "urgent" THEN "urgent"
        ELSE IF c.urgency = "routine" /\ acc.referralUrgency = "none" THEN "routine"
        ELSE acc.referralUrgency,
     requiresReferral |-> acc.requiresReferral \/ c.requiresReferral]

forEachCallback_colorOfLast(acc, c) ==
    [criticalFindings |->
        IF c.requiresReferral
        THEN Append(acc.criticalFindings, c.classification)
        ELSE acc.criticalFindings,
     highestPriority |-> c.color,
     referralUrgency |->
        IF c.urgency = "emergency" THEN "emergency"
        ELSE IF c.urgency = "urgent" /\ acc.referralUrgency # "emergency" THEN "urgent"
        ELSE IF c.urgency = "routine" /\ acc.referralUrgency = "none" THEN "routine"
        ELSE acc.referralUrgency,
     requiresReferral |-> acc.requiresReferral \/ c.requiresReferral]

\* the body of classifications.forEach((c) => {...}): the locals after one result
forEachCallback(acc, c) ==
    [criticalFindings |->
        IF c.requiresReferral
        THEN Append(acc.criticalFindings, c.classification)
        ELSE acc.criticalFindings,
     highestPriority |->
        IF indexOf(priorityOrder, c.color) > indexOf(priorityOrder, acc.highestPriority)
        THEN c.color
        ELSE acc.highestPriority,
     referralUrgency |->
        IF c.urgency = "emergency" THEN "emergency"
        ELSE IF c.urgency = "urgent" /\ acc.referralUrgency # "emergency" THEN "urgent"
        ELSE IF c.urgency = "routine" /\ acc.referralUrgency = "none" THEN "routine"
        ELSE acc.referralUrgency,
     requiresReferral |-> acc.requiresReferral \/ c.requiresReferral]

RECURSIVE forEach(_, _)
\* classifications.forEach: the callback on every element, first to last
forEach(acc, cs) ==
    IF cs = <<>> THEN acc
    ELSE forEach(forEachCallback(acc, Head(cs)), Tail(cs))

overallLabel_yellowOnly(highestPriority, requiresReferral) ==
    IF highestPriority = "red"
    THEN "REFER URGENTLY - Severe Classification"
    ELSE IF highestPriority = "yellow" /\ requiresReferral
    THEN "REFER - Treatment Required at Higher Facility"
    ELSE IF highestPriority = "yellow"
    THEN "Treatment at PHU - Follow up required"
    ELSE "Child can be treated at home"

\* the if/else-if chain that picks overallClassification
overallLabel(highestPriority, requiresReferral) ==
    LET colorPriority == indexOf(priorityOrder, highestPriority)
        redPriority == indexOf(priorityOrder, "red")
        yellowPriority == indexOf(priorityOrder, "yellow")
    IN  IF colorPriority >= redPriority
        THEN "REFER URGENTLY - Severe Classification"
        ELSE IF colorPriority >= yellowPriority /\ requiresReferral
        THEN "REFER - Treatment Required at Higher Facility"
        ELSE IF colorPriority >= yellowPriority
        THEN "Treatment at PHU - Follow up required"
        ELSE "Child can be treated at home"

calculateOverallAssessment(cs) ==
    LET acc == forEach(initialLocals, cs)
    IN  [overallClassification |->
            overallLabel(acc.highestPriority, acc.requiresReferral),
         overallColor |-> acc.highestPriority,
         requiresReferral |-> acc.requiresReferral,
         referralUrgency |->
            IF acc.requiresReferral THEN acc.referralUrgency ELSE "none",
         criticalFindings |-> acc.criticalFindings]

----------------------------------------------------------------------------
(* The wizard's constants and initial state *)

\* the ids of STEPS; currentStep indexes them from 0
STEPS ==
    <<"danger", "cough", "diarrhea", "fever", "ear", "nutrition",
      "immunization", "summary">>

\* STEPS[currentStep].id
StepId(step) == STEPS[step + 1]

\* STEPS.length - 1, the index of the summary
LastStep == Len(STEPS) - 1

StepIndexes == 0..LastStep

\* useState's initial formData: boxes unticked, number inputs and the RDT
\* choice empty.  A number input is the number typed, Absent while empty.
\* (The wheezing, HIV and immunization fields reach no classifier and are
\* left out.)
InitialFormData ==
    [notAbleToDrink |-> FALSE,
     vomitsEverything |-> FALSE,
     hasConvulsions |-> FALSE,
     lethargicUnconscious |-> FALSE,
     convulsingNow |-> FALSE,
     hasCoughDifficultyBreathing |-> FALSE,
     coughDurationDays |-> Absent,
     breathsPerMinute |-> Absent,
     chestIndrawing |-> FALSE,
     stridor |-> FALSE,
     hasDiarrhea |-> FALSE,
     diarrheaDurationDays |-> Absent,
     bloodInStool |-> FALSE,
     sunkenEyes |-> FALSE,
     skinPinchSlow |-> FALSE,
     skinPinchVerySlow |-> FALSE,
     restlessIrritable |-> FALSE,
     drinksEagerly |-> FALSE,
     notAbleToDrinkDiarrhea |-> FALSE,
     hasFever |-> FALSE,
     feverDurationDays |-> Absent,
     temperature |-> Absent,
     stiffNeck |-> FALSE,
     malariaRdtResult |-> "",
     generalizedRash |-> FALSE,
     runnyNose |-> FALSE,
     mouthUlcers |-> FALSE,
     pusDrainingEye |-> FALSE,
     cloudingCornea |-> FALSE,
     hasEarProblem |-> FALSE,
     earPain |-> FALSE,
     earDischarge |-> FALSE,
     earDischargeDurationDays |-> Absent,
     tenderSwellingBehindEar |-> FALSE,
     visibleSevereWasting |-> FALSE,
     edemaBothFeet |-> FALSE,
     weightForAge |-> Absent,
     muacMeasurement |-> Absent,
     palmarPallor |-> FALSE,
     severePalmarPallor |-> FALSE]

\* useState([]) of classifications: no index holds a result
NoClassifications == [step \in StepIndexes |-> Absent]

\* a mutation nobody has called
IdleCompletion == [status |-> "idle", id |-> Absent]

\* the clients that use the Dispensary and the Referrals page at once
Clients == {"a", "b"}

\* no Dispensary page is open
NoDispensary ==
    /\ inventory = 0
    /\ dispensing_records = <<>>
    /\ dispensary = <<>>

\* no Referrals page is open
NoReferrals ==
    /\ referrals = "pending"
    /\ referralsPage = <<>>

\* the state of the wizard's variables where no wizard runs, and the
\* wizard's own state right after mounting
NoWizard ==
    /\ currentStep = 0
    /\ formData = InitialFormData
    /\ patient = Absent
    /\ assessmentId = Absent
    /\ pendingSaves = EmptyBag
    /\ completion = IdleCompletion
    /\ imnci_assessments = <<>>
    /\ nextPressed = {}

----------------------------------------------------------------------------
(* The aggregator applied to an arbitrary list of results *)

ResultLists == UNION {[1..n -> ClassificationResult] : n \in 0..MaxResults}

InitAgg ==
    /\ classifications \in ResultLists
    /\ overall = Absent
    /\ fn = "none"
    /\ data = Absent
    /\ result = Absent
    /\ NoWizard
    /\ NoDispensary
    /\ NoReferrals

CalculateOverall ==
    /\ fn = "none"
    /\ overall = Absent
    /\ overall' = Some(calculateOverallAssessment(classifications))
    /\ UNCHANGED <<classifications, fn, data, result>>
    /\ UNCHANGED wizardVars
    /\ UNCHANGED <<dispensaryVars, referralVars>>

NextAgg == CalculateOverall

SpecAgg == InitAgg /\ [][NextAgg]_vars

----------------------------------------------------------------------------
(* The observation records handed to the classifiers *)

Optional(S) == {Absent} \cup {Some(v) : v \in S}

Ages == 0..MaxAge

Rates == Optional((-1..1) \cup (38..MaxRate))

Days == Optional(-1..MaxDays)

CoughDays == {Absent, Some(1), Some(MaxDays)}

Temperatures == {Absent, Some(39)}

RdtResults == {"positive", "negative", "not_done", Undefined}

Muacs == Optional({0} \cup (113..MaxMuac))

ZScores == Optional(-MaxZDepth..1)

DangerSignsData ==
    [notAbleToDrink : BOOLEAN,
     vomitsEverything : BOOLEAN,
     hasConvulsions : BOOLEAN,
     lethargicUnconscious : BOOLEAN,
     convulsingNow : BOOLEAN]

CoughBreathingData ==
    [hasCoughDifficultyBreathing : BOOLEAN,
     coughDurationDays : CoughDays,
     breathsPerMinute : Rates,
     ageInMonths : Ages,
     chestIndrawing : BOOLEAN,
     stridor : BOOLEAN,
     hasDangerSigns : BOOLEAN]

DiarrheaData ==
    [hasDiarrhea : BOOLEAN,
     diarrheaDurationDays : Days,
     bloodInStool : BOOLEAN,
     sunkenEyes : BOOLEAN,
     skinPinchSlow : BOOLEAN,
     skinPinchVerySlow : BOOLEAN,
     restlessIrritable : BOOLEAN,
     drinksEagerly : BOOLEAN,
     notAbleToDrink : BOOLEAN,
     lethargicUnconscious : BOOLEAN]

FeverData ==
    [hasFever : BOOLEAN,
     feverDurationDays : Days,
     temperature : Temperatures,
     stiffNeck : BOOLEAN,
     malariaRdtResult : RdtResults,
     generalizedRash : BOOLEAN,
     runnyNose : BOOLEAN,
     mouthUlcers : BOOLEAN,
     pusDrainingEye : BOOLEAN,
     cloudingCornea : BOOLEAN,
     hasDangerSigns : BOOLEAN]

EarProblemData ==
    [hasEarProblem : BOOLEAN,
     earPain : BOOLEAN,
     earDischarge : BOOLEAN,
     earDischargeDurationDays : Days,
     tenderSwellingBehindEar : BOOLEAN]

NutritionData ==
    [visibleSevereWasting : BOOLEAN,
     edemaBothFeet : BOOLEAN,
     weightForAge : ZScores,
     muacMeasurement : Muacs,
     palmarPallor : BOOLEAN,
     severePalmarPallor : BOOLEAN]

----------------------------------------------------------------------------
(* One classifier applied to an arbitrary observation record *)

InitClassify ==
    /\ classifications = <<>>
    /\ overall = Absent
    /\ result = Absent
    /\ \/ fn = "danger" /\ data \in DangerSignsData
       \/ fn = "cough" /\ data \in CoughBreathingData
       \/ fn = "diarrhea" /\ data \in DiarrheaData
       \/ fn = "fever" /\ data \in FeverData
       \/ fn = "ear" /\ data \in EarProblemData
       \/ fn = "nutrition" /\ data \in NutritionData
    /\ NoWizard
    /\ NoDispensary
    /\ NoReferrals

Return(r) ==
    /\ result = Absent
    /\ result' = Some(r)
    /\ UNCHANGED <<classifications, overall, fn, data>>
    /\ UNCHANGED wizardVars
    /\ UNCHANGED <<dispensaryVars, referralVars>>

AssessDangerSigns == fn = "danger" /\ Return(assessDangerSigns(data))

AssessCoughBreathing == fn = "cough" /\ Return(assessCoughBreathing(data))

AssessDiarrhea == fn = "diarrhea" /\ Return(assessDiarrhea(data))

AssessFever == fn = "fever" /\ Return(assessFever(data))

AssessEarProblem == fn = "ear" /\ Return(assessEarProblem(data))

AssessNutrition == fn = "nutrition" /\ Return(assessNutrition(data))

NextClassify ==
    \/ AssessDangerSigns
    \/ AssessCoughBreathing
    \/ AssessDiarrhea
    \/ AssessFever
    \/ AssessEarProblem
    \/ AssessNutrition

SpecClassify == InitClassify /\ [][NextClassify]_vars

----------------------------------------------------------------------------
(* The aggregator applied to results of the classifiers *)

\* every result a classifier can return
DangerSignsResults == {assessDangerSigns(d) : d \in DangerSignsData}

CoughBreathingResults == {assessCoughBreathing(d) : d \in CoughBreathingData}

DiarrheaResults == {assessDiarrhea(d) : d \in DiarrheaData}

FeverResults == {assessFever(d) : d \in FeverData}

EarProblemResults == {assessEarProblem(d) : d \in EarProblemData}

NutritionResults == {assessNutrition(d) : d \in NutritionData}

\* the results present in a list of optional results, in the list's order
Present(slots) ==
    LET kept == SelectSeq(slots, LAMBDA slot : slot # Absent)
    IN [i \in 1..Len(kept) |-> kept[i][1]]

\* at most one result per domain, in the order of the wizard's steps
InitDomains ==
    /\ \E danger \in Optional(DangerSignsResults),
          cough \in Optional(CoughBreathingResults),
          diarrhea \in Optional(DiarrheaResults),
          fever \in Optional(FeverResults),
          ear \in Optional(EarProblemResults),
          nutrition \in Optional(NutritionResults) :
            classifications =
                Present(<<danger, cough, diarrhea, fever, ear, nutrition>>)
    /\ overall = Absent
    /\ fn = "none"
    /\ data = Absent
    /\ result = Absent
    /\ NoWizard
    /\ NoDispensary
    /\ NoReferrals

SpecDomains == InitDomains /\ [][NextAgg]_vars

----------------------------------------------------------------------------
(* The IMNCIAssessment wizard *)

\* ages, in months, the patient query may report
PatientAges == {12}

\* What the clinician may enter on a step: the step's fields as they are at
\* first, or one filled-in case of the domain.  The fields of the steps after
\* the cough step stay as they are at first.
DangerForms ==
    {[notAbleToDrink |-> FALSE,
      vomitsEverything |-> FALSE,
      hasConvulsions |-> FALSE,
      lethargicUnconscious |-> lethargic,
      convulsingNow |-> FALSE] : lethargic \in BOOLEAN}

CoughForms ==
    {[hasCoughDifficultyBreathing |-> FALSE,
      coughDurationDays |-> Absent,
      breathsPerMinute |-> Absent,
      chestIndrawing |-> FALSE,
      stridor |-> FALSE],
     [hasCoughDifficultyBreathing |-> TRUE,
      coughDurationDays |-> Some(3),
      breathsPerMinute |-> Some(45),
      chestIndrawing |-> FALSE,
      stridor |-> FALSE]}

\* the fields the step at hand renders, with the entries modelled for them
StepForms(id) ==
    CASE id = "danger" -> DangerForms
      [] id = "cough" -> CoughForms
      [] OTHER -> {}

\* `parseInt(text) || undefined`, `parseFloat(text) || undefined`: an empty
\* input and a typed 0 both give undefined
ParseOrUndefined(text) == IF Truthy(text) THEN text ELSE Absent

\* `formData.malariaRdtResult || undefined`
ChoiceOrUndefined(choice) == IF choice = "" THEN Undefined ELSE choice

\* patient ? differenceInMonths(now, date_of_birth) : 0
ageInMonths == IF patient # Absent THEN patient[1] ELSE 0

hasDangerSigns ==
    \/ formData.notAbleToDrink
    \/ formData.vomitsEverything
    \/ formData.hasConvulsions
    \/ formData.lethargicUnconscious
    \/ formData.convulsingNow

\* the switch of handleNext: the classification of the step, null where the
\* step has no classifier
StepClassification(id) ==
    CASE id = "danger" ->
           Some(assessDangerSigns(
               [notAbleToDrink |-> formData.notAbleToDrink,
                vomitsEverything |-> formData.vomitsEverything,
                hasConvulsions |-> formData.hasConvulsions,
                lethargicUnconscious |-> formData.lethargicUnconscious,
                convulsingNow |-> formData.convulsingNow]))
      [] id = "cough" ->
           Some(assessCoughBreathing(
               [hasCoughDifficultyBreathing |->
                    formData.hasCoughDifficultyBreathing,
                coughDurationDays |->
                    ParseOrUndefined(formData.coughDurationDays),
                breathsPerMinute |->
                    ParseOrUndefined(formData.breathsPerMinute),
                ageInMonths |-> ageInMonths,
                chestIndrawing |-> formData.chestIndrawing,
                stridor |-> formData.stridor,
                hasDangerSigns |-> hasDangerSigns]))
      [] id = "diarrhea" ->
           Some(assessDiarrhea(
               [hasDiarrhea |-> formData.hasDiarrhea,
                diarrheaDurationDays |->
                    ParseOrUndefined(formData.diarrheaDurationDays),
                bloodInStool |-> formData.bloodInStool,
                sunkenEyes |-> formData.sunkenEyes,
                skinPinchSlow |-> formData.skinPinchSlow,
                skinPinchVerySlow |-> formData.skinPinchVerySlow,
                restlessIrritable |-> formData.restlessIrritable,
                drinksEagerly |-> formData.drinksEagerly,
                notAbleToDrink |-> formData.notAbleToDrinkDiarrhea,
                lethargicUnconscious |-> formData.lethargicUnconscious]))
      [] id = "fever" ->
           Some(assessFever(
               [hasFever |-> formData.hasFever,
                feverDurationDays |->
                    ParseOrUndefined(formData.feverDurationDays),
                temperature |-> ParseOrUndefined(formData.temperature),
                stiffNeck |-> formData.stiffNeck,
                malariaRdtResult |->
                    ChoiceOrUndefined(formData.malariaRdtResult),
                generalizedRash |-> formData.generalizedRash,
                runnyNose |-> formData.runnyNose,
                mouthUlcers |-> formData.mouthUlcers,
                pusDrainingEye |-> formData.pusDrainingEye,
                cloudingCornea |-> formData.cloudingCornea,
                hasDangerSigns |-> hasDangerSigns]))
      [] id = "ear" ->
           Some(assessEarProblem(
               [hasEarProblem |-> formData.hasEarProblem,
                earPain |-> formData.earPain,
                earDischarge |-> formData.earDischarge,
                earDischargeDurationDays |->
                    ParseOrUndefined(formData.earDischargeDurationDays),
                tenderSwellingBehindEar |->
                    formData.tenderSwellingBehindEar]))
      [] id = "nutrition" ->
           Some(assessNutrition(
               [visibleSevereWasting |-> formData.visibleSevereWasting,
                edemaBothFeet |-> formData.edemaBothFeet,
                weightForAge |-> ParseOrUndefined(formData.weightForAge),
                muacMeasurement |->
                    ParseOrUndefined(formData.muacMeasurement),
                palmarPallor |-> formData.palmarPallor,
                severePalmarPallor |-> formData.severePalmarPallor]))
      [] OTHER -> Absent

\* classifications.filter(Boolean): the stored results in step order
FilterBoolean(cs) ==
    LET slots == [i \in 1..Len(STEPS) |-> cs[i - 1]]
        kept == SelectSeq(slots, LAMBDA slot : slot # Absent)
    IN [i \in 1..Len(kept) |-> kept[i][1]]

\* the overall assessment the summary step renders
SummaryOverall == calculateOverallAssessment(FilterBoolean(classifications))

\* the page is shown until a completed assessment navigates away
Mounted == fn = "wizard" /\ completion.status # "success"

InitWizard ==
    /\ classifications = NoClassifications
    /\ overall = Absent
    /\ fn = "wizard"
    /\ data = Absent
    /\ result = Absent
    /\ NoWizard
    /\ NoDispensary
    /\ NoReferrals

\* the patient query answers
PatientLoaded(age) ==
    /\ Mounted
    /\ patient = Absent
    /\ patient' = Some(age)
    /\ UNCHANGED <<classifications, overall, fn, data, result, currentStep,
                   formData, assessmentId, pendingSaves, completion,
                   imnci_assessments, nextPressed>>
    /\ UNCHANGED <<dispensaryVars, referralVars>>

\* the clinician edits the fields of the step shown: setFormData per field
SetFormData(fields) ==
    /\ Mounted
    /\ fields \in StepForms(StepId(currentStep))
    /\ formData' = [f \in DOMAIN formData |->
                       IF f \in DOMAIN fields THEN fields[f] ELSE formData[f]]
    /\ formData' # formData
    /\ UNCHANGED <<classifications, overall, fn, data, result, currentStep,
                   patient, assessmentId, pendingSaves, completion,
                   imnci_assessments, nextPressed>>
    /\ UNCHANGED <<dispensaryVars, referralVars>>

\* saveAssessment.mutate: update the row of assessmentId, insert without one
SaveRequest == [id |-> assessmentId]

\* the Next button, rendered on every step but the summary
HandleNext ==
    /\ Mounted
    /\ currentStep # LastStep
    /\ BagCardinality(pendingSaves) < MaxInFlight
    /\ LET classification == StepClassification(StepId(currentStep))
       IN classifications' =
              IF classification # Absent
              THEN [classifications EXCEPT ![currentStep] = classification]
              ELSE classifications
    /\ pendingSaves' = pendingSaves (+) SetToBag({SaveRequest})
    /\ currentStep' =
           IF currentStep < LastStep THEN currentStep + 1 ELSE currentStep
    /\ nextPressed' = nextPressed \cup {currentStep}
    /\ UNCHANGED <<overall, fn, data, result, formData, patient,
                   assessmentId, completion, imnci_assessments>>
    /\ UNCHANGED <<dispensaryVars, referralVars>>

\* the Previous button, disabled on the first step
HandleBack ==
    /\ Mounted
    /\ currentStep > 0
    /\ currentStep' = currentStep - 1
    /\ UNCHANGED <<classifications, overall, fn, data, result, formData,
                   patient, assessmentId, pendingSaves, completion,
                   imnci_assessments, nextPressed>>
    /\ UNCHANGED <<dispensaryVars, referralVars>>

ClickStep_anyStep(index) ==
    /\ Mounted
    /\ currentStep' = index
    /\ currentStep' # currentStep
    /\ UNCHANGED <<classifications, overall, fn, data, result, formData,
                   patient, assessmentId, pendingSaves, completion,
                   imnci_assessments, nextPressed>>
    /\ UNCHANGED <<dispensaryVars, referralVars>>

\* a button of the step bar
ClickStep(index) ==
    /\ Mounted
    /\ index <= currentStep
    /\ currentStep' = index
    /\ currentStep' # currentStep
    /\ UNCHANGED <<classifications, overall, fn, data, result, formData,
                   patient, assessmentId, pendingSaves, completion,
                   imnci_assessments, nextPressed>>
    /\ UNCHANGED <<dispensaryVars, referralVars>>

\* the row an insert creates: status defaults to 'in_progress', the overall
\* columns are null and requires_referral defaults to false
NewRow ==
    [status |-> "in_progress",
     overall_classification |-> Absent,
     overall_classification_color |-> Absent,
     requires_referral |-> FALSE,
     referral_urgency |-> Absent]

\* a save comes back without error; onSuccess keeps the id it returns
SaveSucceeds(request) ==
    /\ fn = "wizard"
    /\ BagIn(request, pendingSaves)
    /\ pendingSaves' = pendingSaves (-) SetToBag({request})
    /\ IF request.id = Absent
       THEN /\ imnci_assessments' = Append(imnci_assessments, NewRow)
            /\ assessmentId' =
                   IF Mounted THEN Some(Len(imnci_assessments) + 1)
                   ELSE assessmentId
       ELSE /\ imnci_assessments' = imnci_assessments
            /\ assessmentId' = IF Mounted THEN request.id ELSE assessmentId
    /\ UNCHANGED <<classifications, overall, fn, data, result, currentStep,
                   formData, patient, completion, nextPressed>>
    /\ UNCHANGED <<dispensaryVars, referralVars>>

\* a save comes back with an error: a toast, nothing kept
SaveFails(request) ==
    /\ fn = "wizard"
    /\ BagIn(request, pendingSaves)
    /\ pendingSaves' = pendingSaves (-) SetToBag({request})
    /\ UNCHANGED <<classifications, overall, fn, data, result, currentStep,
                   formData, patient, assessmentId, completion,
                   imnci_assessments, nextPressed>>
    /\ UNCHANGED <<dispensaryVars, referralVars>>

\* the Complete Assessment button of the summary, disabled while pending
CompleteAssessment ==
    /\ Mounted
    /\ currentStep = LastStep
    /\ completion.status # "pending"
    /\ overall' =
           Some(calculateOverallAssessment(FilterBoolean(classifications)))
    /\ completion' = [status |-> "pending", id |-> assessmentId]
    /\ UNCHANGED <<classifications, fn, data, result, currentStep, formData,
                   patient, assessmentId, pendingSaves, imnci_assessments,
                   nextPressed>>
    /\ UNCHANGED <<dispensaryVars, referralVars>>

\* the columns completeAssessment writes from the aggregator's output
finalData(o) ==
    [status |-> "completed",
     overall_classification |-> Some(o.overallClassification),
     overall_classification_color |-> Some(o.overallColor),
     requires_referral |-> o.requiresReferral,
     referral_urgency |->
         IF o.referralUrgency # "none" THEN Some(o.referralUrgency)
         ELSE Absent]

\* update(finalData).eq('id', assessmentId): the rows with that id
Completed(rows, id) ==
    [i \in 1..Len(rows) |->
        IF id = Some(i) THEN finalData(overall[1]) ELSE rows[i]]

\* the update comes back without error: toast and navigate away
CompleteSucceeds ==
    /\ fn = "wizard"
    /\ completion.status = "pending"
    /\ imnci_assessments' = Completed(imnci_assessments, completion.id)
    /\ completion' = [completion EXCEPT !.status = "success"]
    /\ UNCHANGED <<classifications, overall, fn, data, result, currentStep,
                   formData, patient, assessmentId, pendingSaves,
                   nextPressed>>
    /\ UNCHANGED <<dispensaryVars, referralVars>>

\* the update comes back with an error: a toast, the page stays
CompleteFails ==
    /\ fn = "wizard"
    /\ completion.status = "pending"
    /\ completion' = [completion EXCEPT !.status = "error"]
    /\ UNCHANGED <<classifications, overall, fn, data, result, currentStep,
                   formData, patient, assessmentId, pendingSaves,
                   imnci_assessments, nextPressed>>
    /\ UNCHANGED <<dispensaryVars, referralVars>>

AllForms == DangerForms \cup CoughForms

SaveRequests == [id : Optional(1..MaxInFlight)]

NextWizard ==
    \/ \E age \in PatientAges : PatientLoaded(age)
    \/ \E fields \in AllForms : SetFormData(fields)
    \/ HandleNext
    \/ HandleBack
    \/ \E index \in StepIndexes : ClickStep(index)
    \/ \E request \in SaveRequests : SaveSucceeds(request)
    \/ \E request \in SaveRequests : SaveFails(request)
    \/ CompleteAssessment
    \/ CompleteSucceeds
    \/ CompleteFails

SpecWizard == InitWizard /\ [][NextWizard]_vars

----------------------------------------------------------------------------
(* The classifiers on arbitrary observations, and the wizard *)

InitProgram == InitClassify \/ InitWizard

NextProgram == NextClassify \/ NextWizard

SpecProgram == InitProgram /\ [][NextProgram]_vars

----------------------------------------------------------------------------
(* The Dispensary page: dispensing from one inventory item *)

\* a page that has not yet received its inventory list and has dispensed
\* nothing
IdleDispensary ==
    [quantity |-> Absent, step |-> "idle", qty |-> 0, read |-> 0,
     toast |-> "none"]

InitDispensary ==
    /\ classifications = <<>>
    /\ overall = Absent
    /\ fn = "dispensary"
    /\ data = Absent
    /\ result = Absent
    /\ NoWizard
    /\ NoReferrals
    /\ inventory = StockedQuantity
    /\ dispensing_records = <<>>
    /\ dispensary = [c \in Clients |-> IdleDispensary]

\* the requests of a client that have not yet inserted their record
Inserting == {c \in Clients : dispensary[c].step = "insert"}

\* the inventory query of a client answers (first load, or the refetch
\* after invalidateQueries): the client's list shows the stored quantity
InventoryFetched(c) ==
    /\ fn = "dispensary"
    /\ dispensary[c].quantity # Some(inventory)
    /\ dispensary' = [dispensary EXCEPT ![c].quantity = Some(inventory)]
    /\ UNCHANGED <<inventory, dispensing_records>>
    /\ UNCHANGED <<libVars, wizardVars, referralVars>>

\* dispenseMutation.mutate(), up to the first await: the item is read from
\* the client's list; the button is disabled while the mutation is pending
Dispense(c, qty) ==
    /\ fn = "dispensary"
    /\ dispensary[c].step = "idle"
    /\ dispensary[c].quantity # Absent
    /\ IF qty > dispensary[c].quantity[1]
       THEN /\ dispensary[c].toast # "Insufficient stock"
            /\ dispensary' =
                   [dispensary EXCEPT ![c].toast = "Insufficient stock"]
       ELSE /\ Len(dispensing_records) + Cardinality(Inserting) < MaxRecords
            /\ dispensary' =
                   [dispensary EXCEPT
                       ![c].step = "insert",
                       ![c].qty = qty,
                       ![c].read = dispensary[c].quantity[1],
                       ![c].toast = "none"]
    /\ UNCHANGED <<inventory, dispensing_records>>
    /\ UNCHANGED <<libVars, wizardVars, referralVars>>

\* the insert into dispensing_records succeeds
RecordInserted(c) ==
    /\ fn = "dispensary"
    /\ dispensary[c].step = "insert"
    /\ dispensing_records' = Append(dispensing_records, dispensary[c].qty)
    /\ dispensary' = [dispensary EXCEPT ![c].step = "update"]
    /\ UNCHANGED inventory
    /\ UNCHANGED <<libVars, wizardVars, referralVars>>

\* the insert answers with an error: thrown, onError shows it
InsertFails(c) ==
    /\ fn = "dispensary"
    /\ dispensary[c].step = "insert"
    /\ dispensary' =
           [dispensary EXCEPT ![c].step = "idle", ![c].toast = "error"]
    /\ UNCHANGED <<inventory, dispensing_records>>
    /\ UNCHANGED <<libVars, wizardVars, referralVars>>

\* update({ quantity: inventoryItem.quantity - qty }) succeeds; onSuccess
QuantityUpdated(c) ==
    /\ fn = "dispensary"
    /\ dispensary[c].step = "update"
    /\ inventory' = dispensary[c].read - dispensary[c].qty
    /\ dispensary' =
           [dispensary EXCEPT
               ![c].step = "idle",
               ![c].toast = "Medication dispensed successfully"]
    /\ UNCHANGED dispensing_records
    /\ UNCHANGED <<libVars, wizardVars, referralVars>>

\* the update answers with an error, after the record has been inserted
UpdateFails(c) ==
    /\ fn = "dispensary"
    /\ dispensary[c].step = "update"
    /\ dispensary' =
           [dispensary EXCEPT ![c].step = "idle", ![c].toast = "error"]
    /\ UNCHANGED <<inventory, dispensing_records>>
    /\ UNCHANGED <<libVars, wizardVars, referralVars>>

NextDispensary ==
    \E c \in Clients :
        \/ InventoryFetched(c)
        \/ \E qty \in 1..StockedQuantity : Dispense(c, qty)
        \/ RecordInserted(c)
        \/ InsertFails(c)
        \/ QuantityUpdated(c)
        \/ UpdateFails(c)

SpecDispensary == InitDispensary /\ [][NextDispensary]_vars

----------------------------------------------------------------------------
(* The Referrals page: accepting and completing one referral *)

\* a page that has not yet received its list of referrals
IdleReferralsPage ==
    [status |-> Absent, action |-> "none", sending |-> "none",
     toast |-> "none"]

InitReferrals ==
    /\ classifications = <<>>
    /\ overall = Absent
    /\ fn = "referrals"
    /\ data = Absent
    /\ result = Absent
    /\ NoWizard
    /\ NoDispensary
    /\ referrals = "pending"
    /\ referralsPage = [c \in Clients |-> IdleReferralsPage]

\* the status confirmAction sends for the action of the dialog
statusMap(action) ==
    CASE action = "accept" -> "accepted"
      [] action = "complete" -> "completed"
      [] action = "cancel" -> "cancelled"

\* the referrals query of a client answers (first load, or the refetch
\* after invalidateQueries): its list shows the stored status
ReferralsFetched(c) ==
    /\ fn = "referrals"
    /\ referralsPage[c].status # Some(referrals)
    /\ referralsPage' = [referralsPage EXCEPT ![c].status = Some(referrals)]
    /\ UNCHANGED referrals
    /\ UNCHANGED <<libVars, wizardVars, dispensaryVars>>

\* a button of the referral's row: accept is rendered while the list shows
\* 'pending', complete while it shows 'accepted' or 'in_progress'
handleAction(c, action) ==
    /\ fn = "referrals"
    /\ referralsPage[c].action = "none"
    /\ \/ action = "accept" /\ referralsPage[c].status = Some("pending")
       \/ /\ action = "complete"
          /\ referralsPage[c].status \in {Some("accepted"), Some("in_progress")}
    /\ referralsPage' = [referralsPage EXCEPT ![c].action = action]
    /\ UNCHANGED referrals
    /\ UNCHANGED <<libVars, wizardVars, dispensaryVars>>

\* the Cancel button of the dialog
CloseDialog(c) ==
    /\ fn = "referrals"
    /\ referralsPage[c].action # "none"
    /\ referralsPage' = [referralsPage EXCEPT ![c].action = "none"]
    /\ UNCHANGED referrals
    /\ UNCHANGED <<libVars, wizardVars, dispensaryVars>>

\* the Confirm button of the dialog, disabled while the mutation is pending
confirmAction(c) ==
    /\ fn = "referrals"
    /\ referralsPage[c].action # "none"
    /\ referralsPage[c].sending = "none"
    /\ referralsPage' =
           [referralsPage EXCEPT
               ![c].sending = statusMap(referralsPage[c].action),
               ![c].toast = "none"]
    /\ UNCHANGED referrals
    /\ UNCHANGED <<libVars, wizardVars, dispensaryVars>>

\* update({ status }).eq('id', id) succeeds; onSuccess closes the dialog
StatusUpdated(c) ==
    /\ fn = "referrals"
    /\ referralsPage[c].sending # "none"
    /\ referrals' = referralsPage[c].sending
    /\ referralsPage' =
           [referralsPage EXCEPT
               ![c].sending = "none",
               ![c].action = "none",
               ![c].toast = "Referral Updated"]
    /\ UNCHANGED <<libVars, wizardVars, dispensaryVars>>

\* the update answers with an error: onError shows it
StatusUpdateFails(c) ==
    /\ fn = "referrals"
    /\ referralsPage[c].sending # "none"
    /\ referralsPage' =
           [referralsPage EXCEPT ![c].sending = "none", ![c].toast = "Error"]
    /\ UNCHANGED referrals
    /\ UNCHANGED <<libVars, wizardVars, dispensaryVars>>

NextReferrals ==
    \E c \in Clients :
        \/ ReferralsFetched(c)
        \/ \E action \in {"accept", "complete"} : handleAction(c, action)
        \/ CloseDialog(c)
        \/ confirmAction(c)
        \/ StatusUpdated(c)
        \/ StatusUpdateFails(c)

SpecReferrals == InitReferrals /\ [][NextReferrals]_vars

----------------------------------------------------------------------------
(* Vocabulary of the properties *)

\* the severity order green < yellow < pink < red
ColorRank(c) ==
    CASE c = "green" -> 0
      [] c = "yellow" -> 1
      [] c = "pink" -> 2
      [] c = "red" -> 3

\* the urgency order routine < urgent < emergency; no urgency ranks lowest
UrgencyRank(u) ==
    CASE u = "routine" -> 1
      [] u = "urgent" -> 2
      [] u = "emergency" -> 3
      [] OTHER -> 0

\* the highest color rank of a list, 0 (green) for the empty list
MaxColorRank(cs) ==
    IF cs = <<>> THEN 0
    ELSE CHOOSE r \in 0..3 :
            /\ \E i \in DOMAIN cs : ColorRank(cs[i].color) = r
            /\ \A i \in DOMAIN cs : ColorRank(cs[i].color) <= r

AnyReferral(cs) == \E i \in DOMAIN cs : cs[i].requiresReferral

Aggregated == fn = "none" /\ overall # Absent

Classified(f) == fn = f /\ result # Absent

\* a result with this label and color and this referral flag
Is(r, label, color, referral) ==
    /\ r.classification = label
    /\ r.color = color
    /\ r.requiresReferral = referral

\* a result that requires referral with this urgency
Refers(r, label, color, urgency) ==
    Is(r, label, color, TRUE) /\ r.urgency = urgency

----------------------------------------------------------------------------
(* C1..C4: the aggregator on an arbitrary list *)

\* C1: overallColor is the maximum color of the list under
\* green < yellow < pink < red (pink included), and green for the empty list.
C1_OverallColorIsMaximum ==
    Aggregated =>
        LET cs == classifications
            out == overall[1]
        IN  IF cs = <<>>
            THEN out.overallColor = "green"
            ELSE /\ \E i \in DOMAIN cs : cs[i].color = out.overallColor
                 /\ \A i \in DOMAIN cs :
                        ColorRank(cs[i].color) <= ColorRank(out.overallColor)

\* a pink result followed by a yellow one aggregates to pink
C1_Witness ==
    /\ Aggregated
    /\ Len(classifications) = 2
    /\ classifications[1].color = "pink"
    /\ classifications[2].color = "yellow"
    /\ overall[1].overallColor = "pink"

\* C2: the overall requiresReferral is true if and only if some result of the
\* list has requiresReferral = true.
C2_ReferralIffSomeResultRefers ==
    Aggregated =>
        (overall[1].requiresReferral <=> AnyReferral(classifications))

\* a referral-requiring result followed by one that requires none
C2_Witness ==
    /\ Aggregated
    /\ Len(classifications) = 2
    /\ classifications[1].requiresReferral
    /\ ~classifications[2].requiresReferral
    /\ overall[1].requiresReferral

\* C3: referralUrgency is the highest urgency among the results that have
\* requiresReferral = true, and 'none' when no result requires referral.
\* (Nothing is asked when results require referral and none of them carries
\* an urgency.)
C3_UrgencyIsHighestAmongReferring ==
    Aggregated =>
        LET cs == classifications
            out == overall[1]
            referring == {i \in DOMAIN cs : cs[i].requiresReferral}
            urgencies == {cs[i].urgency : i \in referring} \ {Undefined}
        IN  IF referring = {}
            THEN out.referralUrgency = "none"
            ELSE urgencies # {} =>
                    /\ out.referralUrgency \in urgencies
                    /\ \A u \in urgencies :
                            UrgencyRank(u) <= UrgencyRank(out.referralUrgency)

\* C4: the overall label follows the maximum color: red gives REFER URGENTLY;
\* yellow or pink gives REFER when some result requires referral and
\* Treatment at PHU otherwise; green (and the empty list) gives home care.
C4_OverallLabelFollowsColorTier ==
    Aggregated =>
        LET top == MaxColorRank(classifications)
            label == overall[1].overallClassification
        IN  IF top = 3
            THEN label = "REFER URGENTLY - Severe Classification"
            ELSE IF top \in {1, 2} /\ AnyReferral(classifications)
            THEN label = "REFER - Treatment Required at Higher Facility"
            ELSE IF top \in {1, 2}
            THEN label = "Treatment at PHU - Follow up required"
            ELSE label = "Child can be treated at home"

\* a list whose maximum is pink, without any referral
C4_Witness ==
    /\ Aggregated
    /\ Len(classifications) = 2
    /\ classifications[1].color = "green"
    /\ classifications[2].color = "pink"
    /\ ~AnyReferral(classifications)
    /\ overall[1].overallClassification = "Treatment at PHU - Follow up required"

----------------------------------------------------------------------------
(* C5..C10: the domain classifiers on an arbitrary observation record *)

FlaggedClassifiers == {"cough", "diarrhea", "fever", "ear"}

\* the problem-present flag of the record under classification
ProblemPresent ==
    CASE fn = "cough" -> data.hasCoughDifficultyBreathing
      [] fn = "diarrhea" -> data.hasDiarrhea
      [] fn = "fever" -> data.hasFever
      [] fn = "ear" -> data.hasEarProblem

\* the label each classifier gives when its problem is not present
NotPresentLabel ==
    CASE fn = "cough" -> "No Cough or Breathing Problem"
      [] fn = "diarrhea" -> "No Diarrhea"
      [] fn = "fever" -> "No Fever"
      [] fn = "ear" -> "No Ear Problem"

\* C5 as stated: the result is green without referral exactly when the
\* problem-present flag is false.
C5_GreenWithoutReferralIffNotPresent ==
    (fn \in FlaggedClassifiers /\ result # Absent) =>
        ((result[1].color = "green" /\ ~result[1].requiresReferral)
            <=> ~ProblemPresent)

\* C5 as amended: a false flag gives the classifier's not-present result,
\* green without referral, and that label is returned for no other input;
\* green without referral alone does not tell that the flag is false.
C5_NotPresentResultIffNotPresent ==
    (fn \in FlaggedClassifiers /\ result # Absent) =>
        /\ ~ProblemPresent =>
                Is(result[1], NotPresentLabel, "green", FALSE)
        /\ ProblemPresent => result[1].classification # NotPresentLabel

\* no cough reported although stridor is ticked
C5_Witness ==
    /\ Classified("cough")
    /\ ~data.hasCoughDifficultyBreathing
    /\ data.stridor
    /\ Is(result[1], "No Cough or Breathing Problem", "green", FALSE)

DangerSignFlags ==
    {"notAbleToDrink", "vomitsEverything", "hasConvulsions",
     "lethargicUnconscious", "convulsingNow"}

\* C6: any danger-sign flag gives 'General Danger Signs Present', red,
\* emergency referral; none gives 'No General Danger Signs', green, no
\* referral and no urgency.
C6_DangerSignsTable ==
    Classified("danger") =>
        IF \E f \in DangerSignFlags : data[f]
        THEN Refers(result[1], "General Danger Signs Present", "red", "emergency")
        ELSE /\ Is(result[1], "No General Danger Signs", "green", FALSE)
             /\ result[1].urgency = Undefined

\* convulsingNow alone
C6_Witness ==
    /\ Classified("danger")
    /\ data.convulsingNow
    /\ \A f \in DangerSignFlags \ {"convulsingNow"} : ~data[f]
    /\ result[1].color = "red"

\* the Severe Dehydration predicate of the diarrhea table
SeverePredicate ==
    \/ data.lethargicUnconscious
    \/ data.notAbleToDrink
    \/ (data.sunkenEyes /\ data.skinPinchVerySlow)

SomeDehydrationSign ==
    \/ data.restlessIrritable
    \/ data.sunkenEyes
    \/ data.drinksEagerly
    \/ data.skinPinchSlow

\* the duration, when one is given, is at least n days
AtLeastDays(x, n) == x # Absent /\ x[1] >= n

\* C7: with diarrhea present, the severe predicate gives 'Severe Dehydration',
\* red, emergency referral, whatever the other flags and the duration.
C7_SevereDehydrationFirst ==
    (Classified("diarrhea") /\ data.hasDiarrhea /\ SeverePredicate) =>
        Refers(result[1], "Severe Dehydration", "red", "emergency")

\* severe dehydration together with blood in stool, some-dehydration signs
\* and a long duration
C7_Witness ==
    /\ Classified("diarrhea")
    /\ data.hasDiarrhea
    /\ data.lethargicUnconscious
    /\ data.bloodInStool
    /\ data.restlessIrritable
    /\ AtLeastDays(data.diarrheaDurationDays, 14)
    /\ result[1].classification = "Severe Dehydration"

\* C8: assessDiarrhea agrees with the first-match-wins table.
C8_DiarrheaTable ==
    Classified("diarrhea") =>
        LET r == result[1]
        IN  IF ~data.hasDiarrhea
            THEN Is(r, "No Diarrhea", "green", FALSE)
            ELSE IF SeverePredicate
            THEN Refers(r, "Severe Dehydration", "red", "emergency")
            ELSE IF SomeDehydrationSign
            THEN Is(r, "Some Dehydration", "yellow", FALSE)
            ELSE IF data.bloodInStool
            THEN Is(r, "Dysentery", "yellow", FALSE)
            ELSE IF AtLeastDays(data.diarrheaDurationDays, 14)
            THEN Refers(r, "Persistent Diarrhea", "yellow", "routine")
            ELSE Is(r, "No Dehydration", "green", FALSE)

\* blood in stool and 14 days together with a some-dehydration sign
C8_Witness ==
    /\ Classified("diarrhea")
    /\ data.hasDiarrhea
    /\ ~SeverePredicate
    /\ data.drinksEagerly
    /\ data.bloodInStool
    /\ data.diarrheaDurationDays = Some(14)
    /\ Is(result[1], "Some Dehydration", "yellow", FALSE)

\* the age-banded threshold of the cough table
TableThreshold(age) ==
    CASE age < 2 -> 60
      [] age >= 2 /\ age < 12 -> 50
      [] age >= 12 -> 40

\* C9: assessCoughBreathing agrees with its table; a rate equal to the
\* age-banded threshold counts as fast, and the severe rule does not need
\* fast breathing.
C9_CoughBreathingTable ==
    Classified("cough") =>
        LET r == result[1]
        IN  IF ~data.hasCoughDifficultyBreathing
            THEN Is(r, "No Cough or Breathing Problem", "green", FALSE)
            ELSE IF data.hasDangerSigns \/ data.stridor \/ data.chestIndrawing
            THEN Refers(r, "Severe Pneumonia or Very Severe Disease", "red", "emergency")
            ELSE IF AtLeastDays(data.breathsPerMinute, TableThreshold(data.ageInMonths))
            THEN Is(r, "Pneumonia", "yellow", FALSE)
            ELSE Is(r, "No Pneumonia: Cough or Cold", "green", FALSE)

\* a two-month-old breathing exactly 50 times a minute
C9_Witness ==
    /\ Classified("cough")
    /\ data.hasCoughDifficultyBreathing
    /\ data.ageInMonths = 2
    /\ data.breathsPerMinute = Some(50)
    /\ Is(result[1], "Pneumonia", "yellow", FALSE)

MeaslesPattern == data.generalizedRash /\ data.runnyNose

\* C10: assessFever agrees with its priority table; the measles pattern is
\* decided before the malaria test.
C10_FeverTable ==
    Classified("fever") =>
        LET r == result[1]
        IN  IF ~data.hasFever
            THEN Is(r, "No Fever", "green", FALSE)
            ELSE IF data.hasDangerSigns \/ data.stiffNeck
            THEN Refers(r, "Very Severe Febrile Disease", "red", "emergency")
            ELSE IF MeaslesPattern
            THEN IF data.cloudingCornea \/ data.mouthUlcers \/ data.pusDrainingEye
                 THEN Refers(r, "Severe Complicated Measles", "red", "emergency")
                 ELSE Is(r, "Measles with Eye or Mouth Complications", "yellow", FALSE)
            ELSE IF data.malariaRdtResult = "positive"
            THEN Is(r, "Malaria", "yellow", FALSE)
            ELSE /\ r.classification =
                        IF data.malariaRdtResult = "negative"
                        THEN "Fever - No Malaria"
                        ELSE "Fever - Cause Unknown"
                 /\ r.color = "green"
                 /\ r.requiresReferral <=> AtLeastDays(data.feverDurationDays, 7)
                 /\ r.requiresReferral => r.urgency = "routine"

\* a positive malaria test with the measles pattern
C10_Witness ==
    /\ Classified("fever")
    /\ data.hasFever
    /\ ~data.hasDangerSigns
    /\ ~data.stiffNeck
    /\ MeaslesPattern
    /\ data.malariaRdtResult = "positive"
    /\ result[1].classification = "Measles with Eye or Mouth Complications"

----------------------------------------------------------------------------
(* C11..C16: the classifiers, continued *)

\* C11: assessEarProblem agrees with its table: not present is green without
\* referral; tender swelling is 'Mastoiditis', red, urgent referral; discharge
\* of 14 days or more is 'Chronic Ear Infection', yellow, routine referral;
\* discharge or pain is 'Acute Ear Infection', yellow, no referral; else
\* 'No Ear Infection', green, no referral.
C11_EarProblemTable ==
    Classified("ear") =>
        LET r == result[1]
        IN  IF ~data.hasEarProblem
            THEN r.color = "green" /\ ~r.requiresReferral
            ELSE IF data.tenderSwellingBehindEar
            THEN Refers(r, "Mastoiditis", "red", "urgent")
            ELSE IF AtLeastDays(data.earDischargeDurationDays, 14)
            THEN Refers(r, "Chronic Ear Infection", "yellow", "routine")
            ELSE IF data.earDischarge \/ data.earPain
            THEN Is(r, "Acute Ear Infection", "yellow", FALSE)
            ELSE Is(r, "No Ear Infection", "green", FALSE)

\* discharge for exactly 14 days, with pain
C11_Witness ==
    /\ Classified("ear")
    /\ data.hasEarProblem
    /\ ~data.tenderSwellingBehindEar
    /\ data.earDischarge
    /\ data.earPain
    /\ data.earDischargeDurationDays = Some(14)
    /\ Refers(result[1], "Chronic Ear Infection", "yellow", "routine")

\* a measurement that is given and lies in [lo, hi)
Within(x, lo, hi) == x # Absent /\ x[1] >= lo /\ x[1] < hi

\* a measurement that is given and lies below lim
Below(x, lim) == x # Absent /\ x[1] < lim

\* C12: assessNutrition agrees with its priority table on every input, MUAC
\* and z-score in tenths and possibly absent; the bands are half-open.
C12_NutritionTable ==
    Classified("nutrition") =>
        LET r == result[1]
        IN  IF \/ data.visibleSevereWasting
               \/ data.edemaBothFeet
               \/ Below(data.muacMeasurement, 115)
               \/ Below(data.weightForAge, -30)
            THEN Refers(r, "Severe Acute Malnutrition", "red", "urgent")
            ELSE IF data.severePalmarPallor
            THEN Refers(r, "Severe Anemia", "red", "urgent")
            ELSE IF \/ Within(data.muacMeasurement, 115, 125)
                    \/ Within(data.weightForAge, -30, -20)
            THEN Is(r, "Moderate Acute Malnutrition", "yellow", FALSE)
            ELSE IF data.palmarPallor
            THEN Is(r, "Anemia", "yellow", FALSE)
            ELSE Is(r, "No Malnutrition or Anemia", "green", FALSE)

MalnutritionLabels ==
    {"Severe Acute Malnutrition", "Moderate Acute Malnutrition"}

FeverFallThroughLabels == {"Fever - No Malaria", "Fever - Cause Unknown"}

\* C13: an absent optional number never triggers a severity branch by itself:
\* no 'Pneumonia' without a rate, no 'Persistent Diarrhea' and no 'Chronic Ear
\* Infection' without a duration, no referral from the fever fall-through
\* without a duration, and without MUAC and z-score a malnutrition label only
\* from wasting or edema.
C13_AbsentNumberIsBenign ==
    /\ (Classified("cough") /\ data.breathsPerMinute = Absent) =>
            result[1].classification # "Pneumonia"
    /\ (Classified("diarrhea") /\ data.diarrheaDurationDays = Absent) =>
            result[1].classification # "Persistent Diarrhea"
    /\ (/\ Classified("fever")
        /\ data.feverDurationDays = Absent
        /\ result[1].classification \in FeverFallThroughLabels) =>
            ~result[1].requiresReferral
    /\ (Classified("ear") /\ data.earDischargeDurationDays = Absent) =>
            result[1].classification # "Chronic Ear Infection"
    /\ (/\ Classified("nutrition")
        /\ data.muacMeasurement = Absent
        /\ data.weightForAge = Absent
        /\ result[1].classification \in MalnutritionLabels) =>
            (data.visibleSevereWasting \/ data.edemaBothFeet)

\* a one-year-old with a cough and no rate taken
C13_Witness ==
    /\ Classified("cough")
    /\ data.hasCoughDifficultyBreathing
    /\ ~(data.hasDangerSigns \/ data.stridor \/ data.chestIndrawing)
    /\ data.breathsPerMinute = Absent
    /\ data.ageInMonths = 12
    /\ result[1].classification = "No Pneumonia: Cough or Cold"

\* C14: every number supplied, zero and negatives included, is compared with
\* the thresholds as it is: a supplied MUAC below 11.5 gives 'Severe Acute
\* Malnutrition', and a supplied duration or rate below its threshold never
\* gives the label of that threshold.
C14_SuppliedNumbersComparedAsIs ==
    /\ (Classified("nutrition") /\ Below(data.muacMeasurement, 115)) =>
            result[1].classification = "Severe Acute Malnutrition"
    /\ (Classified("cough")
            /\ Below(data.breathsPerMinute, TableThreshold(data.ageInMonths))) =>
            result[1].classification # "Pneumonia"
    /\ (Classified("diarrhea") /\ Below(data.diarrheaDurationDays, 14)) =>
            result[1].classification # "Persistent Diarrhea"
    /\ (Classified("ear") /\ Below(data.earDischargeDurationDays, 14)) =>
            result[1].classification # "Chronic Ear Infection"
    /\ (/\ Classified("fever")
        /\ Below(data.feverDurationDays, 7)
        /\ result[1].classification \in FeverFallThroughLabels) =>
            ~result[1].requiresReferral

\* C16: the result of assessCoughBreathing is the same whatever
\* coughDurationDays is, absent, short or longer than 14 days.
C16_CoughDurationIsNotRead ==
    Classified("cough") =>
        \A days \in CoughDays :
            assessCoughBreathing([data EXCEPT !.coughDurationDays = days])
                = result[1]

\* a cough of more than 14 days without pneumonia
C16_Witness ==
    /\ Classified("cough")
    /\ data.hasCoughDifficultyBreathing
    /\ AtLeastDays(data.coughDurationDays, 15)
    /\ Is(result[1], "No Pneumonia: Cough or Cold", "green", FALSE)

----------------------------------------------------------------------------
(* C15, C19: the aggregator, continued *)

\* the labels of the results that require referral, in list order
ReferringLabels(cs) ==
    LET referring == SelectSeq(cs, LAMBDA c : c.requiresReferral)
    IN  [i \in 1..Len(referring) |-> referring[i].classification]

\* C15: criticalFindings is the sequence of the labels of the results with
\* requiresReferral = true, in list order, duplicates kept.
C15_CriticalFindingsInOrder ==
    Aggregated =>
        overall[1].criticalFindings = ReferringLabels(classifications)

\* two referring results labelled B then A
C15_Witness ==
    /\ Aggregated
    /\ Len(classifications) = 2
    /\ \A i \in 1..2 : classifications[i].requiresReferral
    /\ classifications[1].classification = "B"
    /\ classifications[2].classification = "A"
    /\ overall[1].criticalFindings = <<"B", "A">>

\* the highest urgency rank carried by any result of the list, 0 for none
MaxUrgencyRank(cs) ==
    CHOOSE r \in 0..3 :
        /\ r = 0 \/ \E i \in DOMAIN cs : UrgencyRank(cs[i].urgency) = r
        /\ \A i \in DOMAIN cs : UrgencyRank(cs[i].urgency) <= r

\* C19: referralUrgency is 'none' when no result requires referral, whatever
\* urgencies the results carry; otherwise it is the highest urgency carried by
\* any result, referring or not.
C19_UrgencyOfAllResultsGatedByReferral ==
    Aggregated =>
        LET u == overall[1].referralUrgency
        IN  IF ~AnyReferral(classifications)
            THEN u = "none"
            ELSE /\ u \in Urgency \cup {"none"}
                 /\ UrgencyRank(u) = MaxUrgencyRank(classifications)

\* an emergency carried by a result that requires no referral
C19_Witness ==
    /\ Aggregated
    /\ Len(classifications) = 2
    /\ ~classifications[1].requiresReferral
    /\ classifications[1].urgency = "emergency"
    /\ classifications[2].requiresReferral
    /\ classifications[2].urgency = "routine"
    /\ overall[1].referralUrgency = "emergency"

----------------------------------------------------------------------------
(* C17 *)

\* C17: no classifier returns a pink result on any observation record, and
\* the overall assessment the wizard computes from its stored results, on
\* the summary step and on completion, never has overallColor pink.
C17_NoPinkFromClassifiersOrWizard ==
    /\ result # Absent => result[1].color # "pink"
    /\ fn = "wizard" =>
           /\ \A step \in StepIndexes :
                  classifications[step] # Absent =>
                      classifications[step][1].color # "pink"
           /\ SummaryOverall.overallColor # "pink"
           /\ overall # Absent => overall[1].overallColor # "pink"

\* the wizard shows a summary of the tier just below pink
C17_Witness ==
    /\ fn = "wizard"
    /\ currentStep = LastStep
    /\ SummaryOverall.overallColor = "yellow"

----------------------------------------------------------------------------
(* C20 *)

\* the steps that hold a stored result
StoredSteps == {step \in StepIndexes : classifications[step] # Absent}

\* the steps of the six domains
DomainSteps ==
    {step \in StepIndexes : StepId(step) \notin {"immunization", "summary"}}

\* C20: in the wizard, every step before the current one has had Next
\* pressed on it; and whenever the summary is the current step, and whenever
\* Complete Assessment has been clicked, exactly the six domain steps hold a
\* stored result, so the aggregator runs over six results.
C20_SummaryAfterNextOnEveryStep ==
    fn = "wizard" =>
        /\ \A step \in StepIndexes : step < currentStep => step \in nextPressed
        /\ (currentStep = LastStep \/ completion.status # "idle") =>
               /\ StoredSteps = DomainSteps
               /\ Len(FilterBoolean(classifications)) = Cardinality(DomainSteps)
               /\ Cardinality(DomainSteps) = 6

\* Complete Assessment clicked on the summary of a child with pneumonia
C20_Witness ==
    /\ fn = "wizard"
    /\ currentStep = LastStep
    /\ completion.status = "pending"
    /\ StoredSteps = DomainSteps
    /\ classifications[1][1].classification = "Pneumonia"

----------------------------------------------------------------------------
(* C21 *)

\* C21: whenever Complete Assessment has reported success, the table holds
\* a row of the session with status 'completed' whose overall columns are
\* the aggregator's output over the stored results (referral_urgency null
\* for 'none').
C21_SuccessLeavesCompletedRow ==
    (fn = "wizard" /\ completion.status = "success") =>
        \E id \in 1..Len(imnci_assessments) :
            imnci_assessments[id] = finalData(SummaryOverall)

----------------------------------------------------------------------------
(* C27 *)

\* C27: in the wizard, whenever the summary is the current step, the stored
\* result of each domain step is what its classifier returns on the form
\* data, the danger-sign flag and the patient's age as they are now.
C27_StoredResultsAreCurrent ==
    (fn = "wizard" /\ currentStep = LastStep) =>
        \A step \in DomainSteps :
            classifications[step] = StepClassification(StepId(step))

----------------------------------------------------------------------------
(* C28 *)

\* C28: a wizard session inserts at most one imnci_assessments row, and
\* once a row exists every save still to be issued updates that row.
C28_OneRowPerSession ==
    fn = "wizard" =>
        /\ Len(imnci_assessments) <= 1
        /\ (Mounted /\ Len(imnci_assessments) = 1) => SaveRequest.id = Some(1)

----------------------------------------------------------------------------
(* C22 *)

ReferLabels ==
    {"REFER URGENTLY - Severe Classification",
     "REFER - Treatment Required at Higher Facility"}

\* C22: for a list of classifier results, at most one per domain, an overall
\* assessment that requires referral carries one of the two REFER labels.
C22_ReferralHasReferLabel ==
    Aggregated =>
        (overall[1].requiresReferral =>
            overall[1].overallClassification \in ReferLabels)

----------------------------------------------------------------------------
(* C23 *)

\* the highest urgency rank among the results that require referral
MaxReferringUrgencyRank(cs) ==
    CHOOSE r \in 0..3 :
        /\ r = 0 \/ \E i \in DOMAIN cs :
                        cs[i].requiresReferral /\ UrgencyRank(cs[i].urgency) = r
        /\ \A i \in DOMAIN cs :
               cs[i].requiresReferral => UrgencyRank(cs[i].urgency) <= r

\* C23: every classifier result that requires referral carries an urgency;
\* and for a list of classifier results an overall assessment that requires
\* referral has a referralUrgency other than 'none', equal to the highest
\* urgency among the results that require referral.
C23_ReferralCarriesUrgency ==
    /\ fn = "none" =>
           \A i \in DOMAIN classifications :
               classifications[i].requiresReferral =>
                   classifications[i].urgency \in Urgency
    /\ Aggregated =>
           (overall[1].requiresReferral =>
               /\ overall[1].referralUrgency \in Urgency
               /\ UrgencyRank(overall[1].referralUrgency)
                      = MaxReferringUrgencyRank(classifications))

\* a routine referral next to results that carry an urgency without
\* requiring referral
C23_Witness ==
    /\ Aggregated
    /\ overall[1].requiresReferral
    /\ overall[1].referralUrgency = "routine"
    /\ \E i \in DOMAIN classifications :
           /\ ~classifications[i].requiresReferral
           /\ classifications[i].urgency \in Urgency

----------------------------------------------------------------------------
(* C24 *)

\* C24: every red classifier result requires referral, urgent or emergency;
\* and for a list of classifier results the overall label 'REFER URGENTLY -
\* Severe Classification' comes with requiresReferral and a referralUrgency
\* of urgent or emergency.
C24_RedMeansUrgentReferral ==
    /\ fn = "none" =>
           \A i \in DOMAIN classifications :
               classifications[i].color = "red" =>
                   /\ classifications[i].requiresReferral
                   /\ classifications[i].urgency \in {"urgent", "emergency"}
    /\ Aggregated =>
           (overall[1].overallClassification
                = "REFER URGENTLY - Severe Classification" =>
               /\ overall[1].requiresReferral
               /\ overall[1].referralUrgency \in {"urgent", "emergency"})

\* a single urgent red result among green ones
C24_Witness ==
    /\ Aggregated
    /\ overall[1].overallClassification
           = "REFER URGENTLY - Severe Classification"
    /\ overall[1].referralUrgency = "urgent"
    /\ Len(classifications) > 1

----------------------------------------------------------------------------
(* C25 *)

\* the rearrangements of the positions 1..n
Rearrangements(n) ==
    {p \in [1..n -> 1..n] : \A i, j \in 1..n : p[i] = p[j] => i = j}

Permuted(cs, p) == [i \in 1..Len(cs) |-> cs[p[i]]]

\* how often a value occurs in a sequence
Occurrences(seq, v) == Cardinality({i \in DOMAIN seq : seq[i] = v})

\* C25: the aggregator's overallColor, requiresReferral, referralUrgency and
\* overallClassification are the same for every rearrangement of its input,
\* and criticalFindings holds the same labels equally often.
C25_OrderOfInputIsImmaterial ==
    Aggregated =>
        \A p \in Rearrangements(Len(classifications)) :
            LET other == calculateOverallAssessment(Permuted(classifications, p))
                mine == overall[1]
            IN  /\ other.overallColor = mine.overallColor
                /\ other.requiresReferral = mine.requiresReferral
                /\ other.referralUrgency = mine.referralUrgency
                /\ other.overallClassification = mine.overallClassification
                /\ \A label \in Labels :
                       Occurrences(other.criticalFindings, label)
                           = Occurrences(mine.criticalFindings, label)

\* two referring results that differ in label, color and urgency
C25_Witness ==
    /\ Aggregated
    /\ Len(classifications) = 2
    /\ classifications[1].requiresReferral
    /\ classifications[2].requiresReferral
    /\ classifications[1].classification # classifications[2].classification
    /\ classifications[1].urgency = "emergency"
    /\ classifications[2].urgency = "urgent"
    /\ classifications[1].color = "yellow"
    /\ classifications[2].color = "red"

----------------------------------------------------------------------------
(* C26 *)

\* the list without its last element
Front(cs) == SubSeq(cs, 1, Len(cs) - 1)

\* one sequence begins with the other
IsPrefix(short, long) ==
    /\ Len(short) <= Len(long)
    /\ SubSeq(long, 1, Len(short)) = short

\* C26: for a list L followed by a result r, the output is at least the
\* output for L: in overallColor, in requiresReferral, in referralUrgency
\* (none < routine < urgent < emergency), and criticalFindings of L is a
\* prefix of the new criticalFindings.
C26_AddingAResultNeverLowers ==
    (Aggregated /\ classifications # <<>>) =>
        LET before == calculateOverallAssessment(Front(classifications))
            after == overall[1]
        IN  /\ ColorRank(after.overallColor) >= ColorRank(before.overallColor)
            /\ before.requiresReferral => after.requiresReferral
            /\ UrgencyRank(after.referralUrgency)
                   >= UrgencyRank(before.referralUrgency)
            /\ IsPrefix(before.criticalFindings, after.criticalFindings)

\* a green result without referral added to a red emergency referral
C26_Witness ==
    /\ Aggregated
    /\ Len(classifications) = 2
    /\ classifications[1].color = "red"
    /\ classifications[1].requiresReferral
    /\ classifications[1].urgency = "emergency"
    /\ classifications[2].color = "green"
    /\ ~classifications[2].requiresReferral
    /\ classifications[2].urgency = "routine"

----------------------------------------------------------------------------
(* C29 *)

RECURSIVE Sum(_)
\* the sum of a sequence of numbers
Sum(seq) == IF seq = <<>> THEN 0 ELSE seq[1] + Sum(Tail(seq))

\* no dispense of any client is in flight
NoDispenseInFlight == \A c \in Clients : dispensary[c].step = "idle"

\* C29: whenever no dispense is in flight, the item's quantity is its
\* stocked quantity less the sum of quantity_dispensed over its dispensing
\* records, and is not negative.
C29_QuantityMatchesRecords ==
    (fn = "dispensary" /\ NoDispenseInFlight) =>
        /\ inventory = StockedQuantity - Sum(dispensing_records)
        /\ inventory >= 0

----------------------------------------------------------------------------
(* C30 *)

\* the order pending < accepted < completed
StatusRank(status) ==
    CASE status = "pending" -> 0
      [] status = "accepted" -> 1
      [] status = "completed" -> 2

\* this step applies the accept of some client to the stored referral
AcceptApplied ==
    \E c \in Clients :
        /\ referralsPage[c].sending = "accepted"
        /\ referralsPage'[c].sending = "none"
        /\ referralsPage'[c].toast = "Referral Updated"

\* C30: the stored status of a referral never moves backwards along
\* pending, accepted, completed (so a completed referral stays completed),
\* and an accept is applied only while the stored status is pending.
C30_StatusOnlyMovesForward ==
    [][fn = "referrals" =>
          /\ StatusRank(referrals') >= StatusRank(referrals)
          /\ AcceptApplied => referrals = "pending"]_vars

====
